---- MODULE Spec2Model ----
(***************************************************************************)
(* Model of the upload layer of invoice_toolstock_etl:                     *)
(*   src/src/load.py           load_invoices_to_drive                      *)
(*   src/src/drive_manager.py  DriveManager                                *)
(*   src/src/transform.py      generate_reference                          *)
(* One job run is a sequential process; pc is its position.  The remote    *)
(* store, the token file and the temp directory are the environment: they  *)
(* outlive a run, and every remote call and every unlink draws its answer  *)
(* from a small set.                                                       *)
(***************************************************************************)
EXTENDS Integers, Sequences, FiniteSets, TLC

\* ---------------------------------------------------------------- bounds
MaxBatch == 2      \* longest batch handed to load_invoices_to_drive
MaxFolders == 2    \* remote folder ids the store can hand out

\* ------------------------------------------------------ program constants
UploadMaxRetries == 3     \* _execute_upload_with_retry(max_retries=3)
CleanupMaxRetries == 5    \* _cleanup_temp_file(max_retries=5)

DRIVE_FOLDER == "invoices"    \* config.DRIVE_FOLDER: the one folder path load.py passes

\* Invoices as generate_reference reads them: id_pedido_cliente ("" is a
\* falsy/missing value) and id ("" when the key is missing).
Invoices ==
    { [id_pedido_cliente |-> "P1", id |-> "1"],
      [id_pedido_cliente |-> "",   id |-> "2"],
      [id_pedido_cliente |-> "",   id |-> ""] }

NoName == "?"

\* transform.generate_reference followed by OUTPUT_FILENAME_TEMPLATE.format:
\* the document name, or NoName when invoice['id'] raises KeyError.
generate_reference(invoice) ==
    IF invoice.id_pedido_cliente # "" THEN invoice.id_pedido_cliente
    ELSE IF invoice.id # "" THEN "id_factura_" \o invoice.id
    ELSE NoName

Names == { generate_reference(i) : i \in Invoices } \ {NoName}

\* --------------------------------------------------------- remote answers
\* What one remote request comes back with: an HTTP status, or a non-HTTP
\* exception (connection reset, timeout), which carries no status.
HttpStatuses == {200, 401, 403, 404, 429, 500}
Responses == [http : {TRUE}, status : HttpStatuses] \cup {[http |-> FALSE, status |-> 0]}
OK == [http |-> TRUE, status |-> 200]
LocalError == [http |-> FALSE, status |-> 0]   \* FileNotFoundError, Exception(...)

IsOk(r) == r.http /\ r.status = 200
\* e.resp.status in [401, 403]
IsAuthError(r) == r.http /\ r.status \in {401, 403}
\* error.resp.status == 429
IsRateLimit(r) == r.http /\ r.status = 429
\* error.resp.status >= 500
IsServerError(r) == r.http /\ r.status >= 500

\* The class an answer is logged under (ghost: read off the answer itself,
\* not through the predicates above).
Class(r) ==
    IF ~r.http THEN "exc"
    ELSE IF r.status = 200 THEN "ok"
    ELSE IF r.status \in {401, 403} THEN "auth"
    ELSE IF r.status = 429 \/ r.status \in {500} THEN "transient"
    ELSE "other"

\* The fault an answer r to a request of `site` adds to the log of the call.
Fault(site, r) ==
    IF Class(r) = "ok" THEN {}
    ELSE {<<site, IF Class(r) = "auth" THEN "auth" ELSE "error">>}

VARIABLES
    \* environment, outliving the run
    token,          \* token file: "absent", "valid", "expired" (refreshable), "invalid"
    remoteFolders,  \* ids of the remote folders named DRIVE_FOLDER
    remoteFiles,    \* [<<folder id, name>> -> number of remote objects]
    disk,           \* staging files present in the temp directory
    nextTmp,        \* staging files created so far (uuid suffix: never reused)
    \* load_invoices_to_drive
    pc, invoices, idx, successful_uploads, failed_uploads, result,
    \* DriveManager
    service, folderCache, delayed,
    \* upload_invoice_json and its callees
    filename, folder_id, temp_file, attempt, retval,
    \* history of the run (ghost)
    outcomes,       \* per processed item: [res, pre, kind, name]
    faults,         \* faults injected during the try block of the current call
    xfer,           \* classes of the answers to the transfer attempts of the call
    kind,           \* summary of the faults of the current call
    pre,            \* remote objects named filename when the call began
    preFiles,       \* the remote objects when the call began
    reauth,         \* force_reauthentication was invoked in the current call
    authed,         \* authenticate() was invoked in this run
    contacted,      \* a remote request was issued in this run
    folderLookups,  \* folder list requests issued in this run
    folderCreates,  \* folder create requests issued in this run
    did,            \* steps of the try block the current call has run
    waits,          \* seconds slept by the transfer loop of the current call
    unlinks,        \* outcomes of the os.unlink attempts of the current call
    reconciled,     \* per cleanup_delayed_files() call: registered paths it found
    \* main.py
    main_ret,       \* how main() ended: "none", "True", "False", "exception", "interrupt"
    exits,          \* the codes passed to exit()
    stages          \* stages of main() that succeeded (ghost)

env == <<token, remoteFolders, remoteFiles, disk, nextTmp>>
loadv == <<invoices, idx, successful_uploads, failed_uploads, result>>
dm == <<service, folderCache, delayed>>
frame == <<filename, folder_id, temp_file, attempt, retval>>
ghost == <<outcomes, faults, xfer, kind, pre, preFiles, reauth, authed, contacted,
           folderLookups, folderCreates>>
calllog == <<did, waits, unlinks>>
mainv == <<main_ret, exits, stages>>
vars == <<env, loadv, dm, frame, ghost, calllog, reconciled, mainv, pc>>

FolderIds == 1..MaxFolders
Batches == UNION { [1..n -> Invoices] : n \in 0..MaxBatch }
NoCache == [p \in {} |-> 0]
Range(q) == { q[i] : i \in 1..Len(q) }

RECURSIVE SumOver(_, _)
SumOver(f, S) == IF S = {} THEN 0 ELSE LET x == CHOOSE y \in S : TRUE IN f[x] + SumOver(f, S \ {x})

\* Remote objects named n, over every folder.
CountName(n) == SumOver(remoteFiles, {k \in DOMAIN remoteFiles : k[2] = n})

\* Summary of a call's faults: "clean", "auth" (every fault a 401/403 answer)
\* or "mixed".
KindOf(fs, xs) ==
    LET cs == { f[2] : f \in fs }
              \cup { IF c = "auth" THEN "auth" ELSE "error" : c \in Range(xs) \ {"ok"} }
    IN  IF cs = {} THEN "clean" ELSE IF cs = {"auth"} THEN "auth" ELSE "mixed"

\* ------------------------------------------------------ DriveManager: session
\* Mutant: without a token file authenticate() runs the login flow and
\* writes a new token.
authenticate_RecreatesToken(tok, svc, refreshOk, r) ==
    IF tok = "invalid"
    THEN [ok |-> FALSE, exc |-> LocalError, token |-> tok, service |-> svc,
          net |-> FALSE, faults |-> {}]
    ELSE IF tok = "expired" /\ ~refreshOk
    THEN [ok |-> FALSE, exc |-> LocalError, token |-> tok, service |-> svc,
          net |-> TRUE, faults |-> {<<"refresh", "error">>}]
    ELSE [ok |-> IsOk(r), exc |-> r, token |-> "valid", service |-> TRUE,
          net |-> TRUE, faults |-> Fault("about", r)]

\* authenticate(): tok is the token file, svc whether self.service is set,
\* refreshOk the outcome of creds.refresh, r the answer to about().get.
\* self.service is assigned (line 75) before about().get runs (line 78).
authenticate(tok, svc, refreshOk, r) ==
    IF tok = "absent" \/ tok = "invalid"
    THEN [ok |-> FALSE, exc |-> LocalError, token |-> tok, service |-> svc,
          net |-> FALSE, faults |-> {}]
    ELSE IF tok = "expired" /\ ~refreshOk
    THEN [ok |-> FALSE, exc |-> LocalError, token |-> tok, service |-> svc,
          net |-> TRUE, faults |-> {<<"refresh", "error">>}]
    ELSE [ok |-> IsOk(r), exc |-> r, token |-> "valid", service |-> TRUE,
          net |-> TRUE, faults |-> Fault("about", r)]

\* validate_connection(): r1 answers the about().get inside authenticate()
\* (issued only when self.service is unset), r2 the one on line 109.
validate_connection(tok, svc, refreshOk, r1, r2) ==
    LET a == IF ~svc THEN authenticate(tok, svc, refreshOk, r1)
             ELSE [ok |-> TRUE, exc |-> OK, token |-> tok, service |-> svc,
                   net |-> FALSE, faults |-> {}]
        e == IF ~a.ok THEN a.exc ELSE r2
        fs == a.faults \cup (IF a.ok THEN Fault("validate", r2) ELSE {})
    IN  IF a.ok /\ IsOk(r2)
        THEN [value |-> TRUE, token |-> a.token, service |-> a.service,
              net |-> TRUE, faults |-> fs]
        ELSE IF IsAuthError(e)
        THEN [value |-> FALSE, token |-> "absent", service |-> FALSE,
              net |-> a.net \/ a.ok, faults |-> fs]
        ELSE [value |-> FALSE, token |-> a.token, service |-> a.service,
              net |-> a.net \/ a.ok, faults |-> fs]

\* force_reauthentication(): removes the token file, unsets the service and
\* calls authenticate(), which then finds no token file.
force_reauthentication(tok, svc, refreshOk, r) ==
    authenticate("absent", FALSE, refreshOk, r)

\* The except clauses of upload_invoice_json (lines 211-222) for an exception
\* e raised in its try block.  retval "raise": the exception of
\* force_reauthentication leaves upload_invoice_json; retry: line 216.
UploadExcept(e, tok, svc) ==
    IF e.http /\ IsAuthError(e)
    THEN LET a == force_reauthentication(tok, svc, TRUE, OK)
         IN  [retval |-> IF a.ok THEN "none" ELSE "raise", retry |-> a.ok,
              token |-> a.token, service |-> a.service, reauth |-> TRUE]
    ELSE [retval |-> "failed", retry |-> FALSE, token |-> tok, service |-> svc,
          reauth |-> FALSE]

\* ------------------------------------------------------ DriveManager: folders
\* Mutant: an HttpError of the folder lookup is taken for an empty listing,
\* and the folder is created.
ResolveRemote_LookupErrorAsEmpty(path, cache, folders, rl, rc, pick) ==
    IF ~IsOk(rl) /\ ~rl.http
    THEN [id |-> 0, raised |-> TRUE, exc |-> rl, cache |-> cache,
          folders |-> folders, lookups |-> 1, creates |-> 0,
          faults |-> Fault("folder_list", rl)]
    ELSE IF IsOk(rl) /\ folders # {}
    THEN [id |-> pick, raised |-> FALSE, exc |-> OK,
          cache |-> [p \in DOMAIN cache \cup {path} |-> IF p = path THEN pick ELSE cache[p]],
          folders |-> folders, lookups |-> 1, creates |-> 0, faults |-> {}]
    ELSE IF ~IsOk(rc)
    THEN [id |-> 0, raised |-> ~rc.http, exc |-> rc, cache |-> cache,
          folders |-> folders, lookups |-> 1, creates |-> 1,
          faults |-> Fault("folder_list", rl) \cup Fault("folder_create", rc)]
    ELSE LET new == CHOOSE i \in FolderIds : i \notin folders
         IN  [id |-> new, raised |-> FALSE, exc |-> OK,
              cache |-> [p \in DOMAIN cache \cup {path} |-> IF p = path THEN new ELSE cache[p]],
              folders |-> folders \cup {new}, lookups |-> 1, creates |-> 1,
              faults |-> Fault("folder_list", rl)]

\* Mutant: the listing is not looked at; a folder is created on every
\* resolution that reaches the remote store.
ResolveRemote_AlwaysCreates(path, cache, folders, rl, rc, pick) ==
    IF ~IsOk(rl)
    THEN [id |-> 0, raised |-> ~rl.http, exc |-> rl, cache |-> cache,
          folders |-> folders, lookups |-> 1, creates |-> 0,
          faults |-> Fault("folder_list", rl)]
    ELSE IF ~IsOk(rc)
    THEN [id |-> 0, raised |-> ~rc.http, exc |-> rc, cache |-> cache,
          folders |-> folders, lookups |-> 1, creates |-> 1,
          faults |-> Fault("folder_create", rc)]
    ELSE LET new == CHOOSE i \in FolderIds : i \notin folders
         IN  [id |-> new, raised |-> FALSE, exc |-> OK,
              cache |-> [p \in DOMAIN cache \cup {path} |-> IF p = path THEN new ELSE cache[p]],
              folders |-> folders \cup {new}, lookups |-> 1, creates |-> 1, faults |-> {}]

\* get_folder_id past the cache (lines 234-260): rl answers files().list,
\* rc files().create, pick is folders[0] of the listing.  id 0 is None.
ResolveRemote(path, cache, folders, rl, rc, pick) ==
    IF ~IsOk(rl)
    THEN [id |-> 0, raised |-> ~rl.http, exc |-> rl, cache |-> cache,
          folders |-> folders, lookups |-> 1, creates |-> 0,
          faults |-> Fault("folder_list", rl)]
    ELSE IF folders # {}
    THEN [id |-> pick, raised |-> FALSE, exc |-> OK,
          cache |-> [p \in DOMAIN cache \cup {path} |-> IF p = path THEN pick ELSE cache[p]],
          folders |-> folders, lookups |-> 1, creates |-> 0, faults |-> {}]
    ELSE IF ~IsOk(rc)
    THEN [id |-> 0, raised |-> ~rc.http, exc |-> rc, cache |-> cache,
          folders |-> folders, lookups |-> 1, creates |-> 1,
          faults |-> Fault("folder_create", rc)]
    ELSE LET new == CHOOSE i \in FolderIds : i \notin folders
         IN  [id |-> new, raised |-> FALSE, exc |-> OK,
              cache |-> [p \in DOMAIN cache \cup {path} |-> IF p = path THEN new ELSE cache[p]],
              folders |-> folders \cup {new}, lookups |-> 1, creates |-> 1, faults |-> {}]

\* Mutant: the cache is written and never read.
get_folder_id_NoCacheRead(path, cache, folders, rl, rc, pick) ==
    ResolveRemote(path, cache, folders, rl, rc, pick)

\* get_folder_id(folder_path): the cached id (lines 231-232), or the
\* resolution against the remote store.
get_folder_id(path, cache, folders, rl, rc, pick) ==
    IF path \in DOMAIN cache
    THEN [id |-> cache[path], raised |-> FALSE, exc |-> OK, cache |-> cache,
          folders |-> folders, lookups |-> 0, creates |-> 0, faults |-> {}]
    ELSE ResolveRemote(path, cache, folders, rl, rc, pick)

\* Mutant: the existence check never finds the file.
FileIdInFolder_NeverFound(n, r) ==
    IF IsOk(r) \/ r.http THEN "none" ELSE "raise"

\* _get_file_id_in_folder(filename, folder_id): n is the number of remote
\* objects of that name in the folder, r the answer to files().list.
\* "found", "none" (None: no such file, or an HttpError), "raise".
FileIdInFolder(n, r) ==
    IF IsOk(r) THEN (IF n > 0 THEN "found" ELSE "none")
    ELSE IF r.http THEN "none"
    ELSE "raise"

\* ------------------------------------------------------ DriveManager: transfer
\* Mutant: every HttpError is retried.
TransferStep_RetriesAll(r) ==
    IF IsOk(r) THEN "return" ELSE "retry"

\* One iteration of the for loop of _execute_upload_with_retry on answer r:
\* "return" (line 283), "retry" (429, 5xx, other exception), "break".
TransferStep(r) ==
    IF IsOk(r) THEN "return"
    ELSE IF r.http THEN (IF IsRateLimit(r) \/ IsServerError(r) THEN "retry" ELSE "break")
    ELSE "retry"

\* Mutant: the clause for other exceptions sleeps after the last attempt too.
TransferWait_SleepsAfterLast(r, a) ==
    IF IsOk(r) THEN <<>>
    ELSE IF r.http
    THEN (IF IsRateLimit(r) \/ IsServerError(r) THEN <<2^a + 1>> ELSE <<>>)
    ELSE <<2^a>>

\* time.sleep in the except clauses of that loop at iteration a (lines
\* 286-300): the seconds slept after answer r, as a sequence (<<>>: no sleep).
TransferWait(r, a) ==
    IF IsOk(r) THEN <<>>
    ELSE IF r.http
    THEN (IF IsRateLimit(r) \/ IsServerError(r) THEN <<2^a + 1>> ELSE <<>>)
    ELSE (IF a < UploadMaxRetries - 1 THEN <<2^a>> ELSE <<>>)

\* Mutant: a transient error is retried without any ceiling.
MoreTransferAttempts_NoCeiling(a) == TRUE

\* Mutant: the loop gives up one attempt early.
MoreTransferAttempts_OneShort(a) == a + 1 < UploadMaxRetries - 1

\* range(max_retries): whether the loop runs another iteration after a.
MoreTransferAttempts(a) == a + 1 < UploadMaxRetries

\* Mutant: the cleanup loop runs one more iteration.
MoreCleanupAttempts_OneMore(a) == a < CleanupMaxRetries

\* range(max_retries) of _cleanup_temp_file, line 314.
MoreCleanupAttempts(a) == a < CleanupMaxRetries - 1

\* The truth value load_invoices_to_drive sees (retval names the return site).
ReturnsTrue(rv) == rv \in {"skip", "uploaded"}
ResultOf(rv) == IF rv = "uploaded" THEN "Uploaded" ELSE IF rv = "skip" THEN "Skipped" ELSE "Failed"

\* ------------------------------------------------------------------ Init
BatchNames(b) == { generate_reference(b[i]) : i \in 1..Len(b) } \ {NoName}

\* The job starts with some token file, an empty temp directory and a remote
\* store that holds either nothing of this batch or, after an earlier run of
\* the job on it, one object per document name in folder 1.
InitCommon ==
    /\ token \in {"absent", "valid", "expired", "invalid"}
    /\ invoices \in Batches
    /\ \E uploaded \in {{}, BatchNames(invoices)} :
         /\ remoteFiles = [k \in FolderIds \X Names |->
                              IF k[1] = 1 /\ k[2] \in uploaded THEN 1 ELSE 0]
         /\ remoteFolders \in (IF uploaded = {} THEN {{}, {1}} ELSE {{1}})
    /\ disk = {} /\ nextTmp = 0
    /\ idx = 0 /\ successful_uploads = 0 /\ failed_uploads = 0 /\ result = "none"
    /\ service = FALSE /\ folderCache = NoCache /\ delayed = <<>>
    /\ filename = NoName /\ folder_id = 0 /\ temp_file = 0 /\ attempt = 0
    /\ retval = "none"
    /\ outcomes = <<>> /\ faults = {} /\ xfer = <<>> /\ kind = "clean" /\ pre = 0
    /\ preFiles = remoteFiles
    /\ reauth = FALSE /\ authed = FALSE /\ contacted = FALSE
    /\ folderLookups = 0 /\ folderCreates = 0
    /\ did = {} /\ waits = <<>> /\ unlinks = <<>> /\ reconciled = <<>>
    /\ main_ret = "none" /\ exits = <<>> /\ stages = {}

\* load_invoices_to_drive(invoices) called on its own.
Init == InitCommon /\ pc = "start"

\* --------------------------------------------------- load_invoices_to_drive
\* Mutant: no early return for the empty batch.
LoadStart_NoEmptyCheck ==
    /\ pc = "start"
    /\ result' = result /\ pc' = "load_auth"
    /\ service' = FALSE /\ folderCache' = NoCache /\ delayed' = <<>>
    /\ UNCHANGED <<env, invoices, idx, successful_uploads, failed_uploads, frame, ghost>>
    /\ UNCHANGED <<calllog, reconciled, mainv>>

\* Lines 20-27: the empty batch returns True at once; otherwise a
\* DriveManager is constructed.
LoadStart ==
    /\ pc = "start"
    /\ IF invoices = <<>>
       THEN /\ result' = "True" /\ pc' = "done"
       ELSE /\ result' = result /\ pc' = "load_auth"
    /\ service' = FALSE /\ folderCache' = NoCache /\ delayed' = <<>>
    /\ UNCHANGED <<env, invoices, idx, successful_uploads, failed_uploads, frame, ghost>>
    /\ UNCHANGED <<calllog, reconciled, mainv>>

\* Mutant: the exception of authenticate() is swallowed and the run goes on.
LoadAuthenticate_IgnoresFailure ==
    /\ pc = "load_auth"
    /\ \E refreshOk \in BOOLEAN, r \in Responses :
         LET a == authenticate(token, service, refreshOk, r) IN
         /\ token' = a.token /\ service' = a.service
         /\ authed' = TRUE /\ contacted' = (contacted \/ a.net)
         /\ pc' = "load_test" /\ result' = result
    /\ UNCHANGED <<remoteFolders, remoteFiles, disk, nextTmp, invoices, idx,
                   successful_uploads, failed_uploads, folderCache, delayed, frame,
                   outcomes, faults, xfer, kind, pre, preFiles, reauth, folderLookups, folderCreates>>
    /\ UNCHANGED <<calllog, reconciled, mainv>>

\* Line 36: authenticate(); an exception reaches line 87 and returns False.
LoadAuthenticate ==
    /\ pc = "load_auth"
    /\ \E refreshOk \in BOOLEAN, r \in Responses :
         LET a == authenticate(token, service, refreshOk, r) IN
         /\ token' = a.token /\ service' = a.service
         /\ authed' = TRUE /\ contacted' = (contacted \/ a.net)
         /\ IF a.ok THEN /\ pc' = "load_test" /\ result' = result
                    ELSE /\ pc' = "done" /\ result' = "False"
    /\ UNCHANGED <<remoteFolders, remoteFiles, disk, nextTmp, invoices, idx,
                   successful_uploads, failed_uploads, folderCache, delayed, frame,
                   outcomes, faults, xfer, kind, pre, preFiles, reauth, folderLookups, folderCreates>>
    /\ UNCHANGED <<calllog, reconciled, mainv>>

\* Lines 39-44: test_connection() is validate_connection().
LoadTestConnection ==
    /\ pc = "load_test"
    /\ \E refreshOk \in BOOLEAN, r1, r2 \in Responses :
         LET v == validate_connection(token, service, refreshOk, r1, r2) IN
         /\ token' = v.token /\ service' = v.service
         /\ authed' = (authed \/ ~service) /\ contacted' = (contacted \/ v.net)
         /\ IF v.value THEN /\ pc' = "loop" /\ result' = result
                       ELSE /\ pc' = "done" /\ result' = "False"
    /\ successful_uploads' = 0 /\ failed_uploads' = 0
    /\ UNCHANGED <<remoteFolders, remoteFiles, disk, nextTmp, invoices, idx,
                   folderCache, delayed, frame,
                   outcomes, faults, xfer, kind, pre, preFiles, reauth, folderLookups, folderCreates>>
    /\ UNCHANGED <<calllog, reconciled, mainv>>

\* Mutant: no per-item except clause; the KeyError of generate_reference
\* reaches the outer handler (line 87) and ends the run.
LoopNext_AbortsOnError ==
    /\ pc = "loop"
    /\ IF idx = Len(invoices)
       THEN /\ pc' = "cleanup"
            /\ UNCHANGED <<idx, failed_uploads, filename, outcomes, pre, result>>
       ELSE LET name == generate_reference(invoices[idx + 1]) IN
            /\ idx' = idx + 1
            /\ UNCHANGED <<failed_uploads, outcomes>>
            /\ IF name = NoName
               THEN /\ UNCHANGED <<filename, pre>>
                    /\ result' = "False" /\ pc' = "done"
               ELSE /\ filename' = name
                    /\ pre' = CountName(name)
                    /\ result' = result /\ pc' = "up_validate"
    /\ UNCHANGED <<env, invoices, successful_uploads, dm,
                   folder_id, temp_file, attempt, retval, faults, xfer, kind, reauth, preFiles,
                   authed, contacted, folderLookups, folderCreates>>
    /\ UNCHANGED <<calllog, reconciled, mainv>>

\* Lines 46-57 and 64-66: the next invoice, its filename, and the call of
\* upload_invoice_json; a KeyError of generate_reference counts as failed.
\* After the last invoice: line 68.
LoopNext ==
    /\ pc = "loop"
    /\ IF idx = Len(invoices)
       THEN /\ pc' = "cleanup"
            /\ UNCHANGED <<idx, failed_uploads, filename, outcomes, pre>>
       ELSE LET name == generate_reference(invoices[idx + 1]) IN
            /\ idx' = idx + 1
            /\ IF name = NoName
               THEN /\ failed_uploads' = failed_uploads + 1
                    /\ outcomes' = Append(outcomes,
                          [res |-> "Failed", pre |-> 0, kind |-> "mixed",
                           name |-> NoName])
                    /\ UNCHANGED <<filename, pre>>
                    /\ pc' = "loop"
               ELSE /\ failed_uploads' = failed_uploads
                    /\ outcomes' = outcomes
                    /\ filename' = name
                    /\ pre' = CountName(name)
                    /\ pc' = "up_validate"
    /\ UNCHANGED <<env, invoices, successful_uploads, result, dm,
                   folder_id, temp_file, attempt, retval, faults, xfer, kind, reauth, preFiles,
                   authed, contacted, folderLookups, folderCreates>>
    /\ UNCHANGED <<calllog, reconciled, mainv>>

\* ------------------------------------------------------ upload_invoice_json
\* Mutant: a failed validation also empties _folder_cache.
UpValidate_DropsCache ==
    /\ pc = "up_validate"
    /\ \E refreshOk \in BOOLEAN, r1, r2 \in Responses :
         LET v == validate_connection(token, service, refreshOk, r1, r2) IN
         /\ token' = v.token /\ service' = v.service
         /\ faults' = faults \cup v.faults
         /\ authed' = (authed \/ ~service) /\ contacted' = (contacted \/ v.net)
         /\ pc' = IF v.value THEN "up_folder" ELSE "up_reauth"
         /\ folderCache' = IF v.value THEN folderCache ELSE NoCache
    /\ UNCHANGED <<remoteFolders, remoteFiles, disk, nextTmp, loadv, delayed,
                   frame, outcomes, xfer, kind, pre, preFiles, reauth, folderLookups, folderCreates>>
    /\ UNCHANGED <<calllog, reconciled, mainv>>

\* Line 147: validate_connection().
UpValidate ==
    /\ pc = "up_validate"
    /\ \E refreshOk \in BOOLEAN, r1, r2 \in Responses :
         LET v == validate_connection(token, service, refreshOk, r1, r2) IN
         /\ token' = v.token /\ service' = v.service
         /\ faults' = faults \cup v.faults
         /\ authed' = (authed \/ ~service) /\ contacted' = (contacted \/ v.net)
         /\ pc' = IF v.value THEN "up_folder" ELSE "up_reauth"
    /\ UNCHANGED <<remoteFolders, remoteFiles, disk, nextTmp, loadv, folderCache, delayed,
                   frame, outcomes, xfer, kind, pre, preFiles, reauth, folderLookups, folderCreates>>
    /\ UNCHANGED <<calllog, reconciled, mainv>>

\* Mutant: the exception of authenticate() is logged and the upload goes on.
UpReauthenticate_GoesOn ==
    /\ pc = "up_reauth"
    /\ \E refreshOk \in BOOLEAN, r \in Responses :
         LET a == authenticate(token, service, refreshOk, r) IN
         /\ token' = a.token /\ service' = a.service
         /\ faults' = faults \cup a.faults
         /\ authed' = TRUE /\ contacted' = (contacted \/ a.net)
         /\ pc' = "up_folder" /\ retval' = retval /\ kind' = kind
    /\ UNCHANGED <<remoteFolders, remoteFiles, disk, nextTmp, loadv, folderCache, delayed,
                   filename, folder_id, temp_file, attempt,
                   outcomes, xfer, pre, preFiles, reauth, folderLookups, folderCreates>>
    /\ UNCHANGED <<calllog, reconciled, mainv>>

\* Lines 148-153: authenticate() after a failed validation; its exception
\* returns False before the try block is entered.
UpReauthenticate ==
    /\ pc = "up_reauth"
    /\ \E refreshOk \in BOOLEAN, r \in Responses :
         LET a == authenticate(token, service, refreshOk, r) IN
         /\ token' = a.token /\ service' = a.service
         /\ faults' = faults \cup a.faults
         /\ authed' = TRUE /\ contacted' = (contacted \/ a.net)
         /\ IF a.ok THEN /\ pc' = "up_folder" /\ retval' = retval /\ kind' = kind
                    ELSE /\ pc' = "up_ret" /\ retval' = "failed"
                         /\ kind' = KindOf(faults \cup a.faults, <<>>)
    /\ UNCHANGED <<remoteFolders, remoteFiles, disk, nextTmp, loadv, folderCache, delayed,
                   filename, folder_id, temp_file, attempt,
                   outcomes, xfer, pre, preFiles, reauth, folderLookups, folderCreates>>
    /\ UNCHANGED <<calllog, reconciled, mainv>>

\* Lines 157-160: get_folder_id(folder_path); None returns False, an
\* exception goes to the except clauses.
UpFolder ==
    /\ pc = "up_folder"
    /\ \E rl, rc \in Responses, pick \in (IF remoteFolders = {} THEN {0} ELSE remoteFolders) :
         LET g == get_folder_id(DRIVE_FOLDER, folderCache, remoteFolders, rl, rc, pick)
             x == UploadExcept(g.exc, token, service)
         IN
         /\ folderCache' = g.cache /\ remoteFolders' = g.folders
         /\ folderLookups' = folderLookups + g.lookups
         /\ folderCreates' = folderCreates + g.creates
         /\ contacted' = (contacted \/ g.lookups > 0)
         /\ faults' = faults \cup g.faults
         /\ IF g.raised
            THEN /\ token' = x.token /\ service' = x.service /\ reauth' = (reauth \/ x.reauth)
                 /\ retval' = x.retval /\ folder_id' = folder_id
                 /\ pc' = IF x.retry THEN "up_validate" ELSE "up_finally"
            ELSE /\ UNCHANGED <<token, service, reauth>>
                 /\ folder_id' = g.id
                 /\ IF g.id = 0 THEN /\ retval' = "failed" /\ pc' = "up_finally"
                                ELSE /\ retval' = retval /\ pc' = "up_exists"
    /\ did' = did \cup {"folder"}
    /\ UNCHANGED <<remoteFiles, disk, nextTmp, loadv, delayed, filename, temp_file, attempt,
                   outcomes, xfer, kind, pre, preFiles, authed, waits, unlinks, reconciled, mainv>>

\* Mutant: the staging file is written before the existence check.
UpExists_StagesFirst ==
    /\ pc = "up_exists"
    /\ \E r \in Responses :
         LET f == FileIdInFolder(remoteFiles[<<folder_id, filename>>], r)
             x == UploadExcept(r, token, service)
         IN
         /\ faults' = faults \cup Fault("exists", r)
         /\ CASE f = "found" -> /\ retval' = "skip" /\ pc' = "up_finally"
                                /\ UNCHANGED <<token, service, reauth>>
              [] f = "none"  -> /\ retval' = retval /\ pc' = "up_stage"
                                /\ UNCHANGED <<token, service, reauth>>
              [] f = "raise" -> /\ token' = x.token /\ service' = x.service
                                /\ reauth' = (reauth \/ x.reauth)
                                /\ retval' = x.retval
                                /\ pc' = IF x.retry THEN "up_validate" ELSE "up_finally"
    /\ contacted' = TRUE
    /\ nextTmp' = nextTmp + 1 /\ temp_file' = nextTmp + 1 /\ disk' = disk \cup {nextTmp + 1}
    /\ UNCHANGED <<remoteFolders, remoteFiles, loadv, folderCache, delayed,
                   filename, folder_id, attempt,
                   outcomes, xfer, kind, pre, preFiles, authed, folderLookups, folderCreates,
                   waits, unlinks, reconciled, mainv>>
    /\ did' = did \cup {"exists"}

\* Lines 163-166: the existence check; a file found returns True (skip).
UpExists ==
    /\ pc = "up_exists"
    /\ \E r \in Responses :
         LET f == FileIdInFolder(remoteFiles[<<folder_id, filename>>], r)
             x == UploadExcept(r, token, service)
         IN
         /\ faults' = faults \cup Fault("exists", r)
         /\ CASE f = "found" -> /\ retval' = "skip" /\ pc' = "up_finally"
                                /\ UNCHANGED <<token, service, reauth>>
              [] f = "none"  -> /\ retval' = retval /\ pc' = "up_stage"
                                /\ UNCHANGED <<token, service, reauth>>
              [] f = "raise" -> /\ token' = x.token /\ service' = x.service
                                /\ reauth' = (reauth \/ x.reauth)
                                /\ retval' = x.retval
                                /\ pc' = IF x.retry THEN "up_validate" ELSE "up_finally"
    /\ contacted' = TRUE
    /\ UNCHANGED <<remoteFolders, remoteFiles, disk, nextTmp, loadv, folderCache, delayed,
                   filename, folder_id, temp_file, attempt,
                   outcomes, xfer, kind, pre, preFiles, authed, folderLookups, folderCreates,
                   waits, unlinks, reconciled, mainv>>
    /\ did' = did \cup {"exists"}

\* Lines 169-199: the staging file.  "nofile": NamedTemporaryFile raises and
\* temp_file stays None; "nodump": the file exists and json.dump raises;
\* both reach line 220.  "ok": the upload request is prepared.
UpStage ==
    /\ pc = "up_stage"
    /\ \E o \in {"ok", "nofile", "nodump"} :
         /\ IF o = "nofile"
            THEN UNCHANGED <<disk, nextTmp, temp_file>>
            ELSE /\ nextTmp' = nextTmp + 1
                 /\ temp_file' = nextTmp + 1
                 /\ disk' = disk \cup {nextTmp + 1}
         /\ IF o = "ok"
            THEN /\ retval' = retval /\ pc' = "up_transfer" /\ faults' = faults
            ELSE /\ retval' = "failed" /\ pc' = "up_finally"
                 /\ faults' = faults \cup {<<"stage", "error">>}
    /\ attempt' = 0
    /\ did' = did \cup {"stage"}
    /\ UNCHANGED <<token, remoteFolders, remoteFiles, loadv, dm, filename, folder_id,
                   outcomes, xfer, kind, pre, preFiles, reauth, authed, contacted,
                   folderLookups, folderCreates, waits, unlinks, reconciled, mainv>>

\* Lines 202-209 with one iteration of the loop of _execute_upload_with_retry
\* (lines 274-300): request.next_chunk() answers r.  A document is one chunk.
UpTransfer ==
    /\ pc = "up_transfer"
    /\ \E r \in Responses :
         LET t == TransferStep(r) IN
         /\ xfer' = Append(xfer, Class(r))
         /\ waits' = waits \o TransferWait(r, attempt)
         /\ CASE t = "return" ->
                   /\ remoteFiles' = [remoteFiles EXCEPT ![<<folder_id, filename>>] = @ + 1]
                   /\ retval' = "uploaded" /\ pc' = "up_finally" /\ attempt' = attempt
              [] t = "break" ->
                   /\ remoteFiles' = remoteFiles
                   /\ retval' = "failed" /\ pc' = "up_finally" /\ attempt' = attempt
              [] t = "retry" ->
                   /\ remoteFiles' = remoteFiles
                   /\ IF MoreTransferAttempts(attempt)
                      THEN /\ attempt' = attempt + 1 /\ retval' = retval /\ pc' = "up_transfer"
                      ELSE /\ attempt' = attempt /\ retval' = "failed" /\ pc' = "up_finally"
    /\ contacted' = TRUE
    /\ did' = did \cup {"transfer"}
    /\ UNCHANGED <<token, remoteFolders, disk, nextTmp, loadv, dm, filename, folder_id,
                   temp_file, outcomes, faults, kind, pre, preFiles, reauth, authed,
                   folderLookups, folderCreates, unlinks, reconciled, mainv>>

\* Lines 224-226: the finally clause.  (The log of the try block is folded
\* into its summary here.)
UpFinally ==
    /\ pc = "up_finally"
    /\ pc' = IF temp_file # 0 /\ temp_file \in disk THEN "up_unlink" ELSE "up_ret"
    /\ attempt' = 0
    /\ kind' = KindOf(faults, xfer) /\ faults' = {} /\ xfer' = <<>>
    /\ did' = {} /\ waits' = <<>>
    /\ UNCHANGED <<env, loadv, dm, filename, folder_id, temp_file, retval,
                   outcomes, pre, preFiles, reauth, authed, contacted, folderLookups, folderCreates,
                   unlinks, reconciled, mainv>>

\* Mutant: _cleanup_temp_file has no clause for other exceptions; the OSError
\* leaves the finally clause and replaces the return value of the call.
UpUnlink_Raises ==
    /\ pc = "up_unlink"
    /\ \E o \in {"ok", "perm", "oserr"} :
         /\ unlinks' = Append(unlinks, o)
         /\ CASE o = "ok" ->
                   /\ disk' = disk \ {temp_file} /\ delayed' = delayed
                   /\ attempt' = attempt /\ pc' = "up_ret" /\ retval' = retval
              [] o = "perm" ->
                   /\ disk' = disk /\ retval' = retval
                   /\ IF MoreCleanupAttempts(attempt)
                      THEN /\ attempt' = attempt + 1 /\ delayed' = delayed
                           /\ pc' = "up_unlink"
                      ELSE /\ attempt' = attempt /\ delayed' = Append(delayed, temp_file)
                           /\ pc' = "up_ret"
              [] o = "oserr" ->
                   /\ disk' = disk /\ delayed' = delayed
                   /\ attempt' = attempt /\ pc' = "up_ret" /\ retval' = "raise"
    /\ UNCHANGED <<token, remoteFolders, remoteFiles, nextTmp, loadv, service, folderCache,
                   filename, folder_id, temp_file, ghost, did, waits, reconciled, mainv>>

\* One iteration of the loop of _cleanup_temp_file (lines 306-323): os.unlink
\* succeeds, raises PermissionError, or raises another OSError.
UpUnlink ==
    /\ pc = "up_unlink"
    /\ \E o \in {"ok", "perm", "oserr"} :
         /\ unlinks' = Append(unlinks, o)
         /\ CASE o = "ok" ->
                   /\ disk' = disk \ {temp_file} /\ delayed' = delayed
                   /\ attempt' = attempt /\ pc' = "up_ret"
              [] o = "perm" ->
                   /\ disk' = disk
                   /\ IF MoreCleanupAttempts(attempt)
                      THEN /\ attempt' = attempt + 1 /\ delayed' = delayed
                           /\ pc' = "up_unlink"
                      ELSE /\ attempt' = attempt /\ delayed' = Append(delayed, temp_file)
                           /\ pc' = "up_ret"
              [] o = "oserr" ->
                   /\ disk' = disk /\ delayed' = delayed
                   /\ attempt' = attempt /\ pc' = "up_ret"
    /\ retval' = retval
    /\ UNCHANGED <<token, remoteFolders, remoteFiles, nextTmp, loadv, service, folderCache,
                   filename, folder_id, temp_file, ghost, did, waits, reconciled, mainv>>

\* Mutant: cleanup_delayed_files() is called inside the loop, after each
\* upload (here a pass in which every unlink fails).
UpReturn_ReconcilesEachItem ==
    /\ pc = "up_ret"
    /\ IF ReturnsTrue(retval)
       THEN /\ successful_uploads' = successful_uploads + 1
            /\ failed_uploads' = failed_uploads
       ELSE /\ successful_uploads' = successful_uploads
            /\ failed_uploads' = failed_uploads + 1
    /\ outcomes' = Append(outcomes, [res |-> ResultOf(retval), pre |-> pre, kind |-> kind,
                                     name |-> filename])
    /\ pc' = "loop"
    /\ filename' = NoName /\ folder_id' = 0 /\ temp_file' = 0 /\ attempt' = 0
    /\ retval' = "none"
    /\ faults' = {} /\ xfer' = <<>> /\ kind' = "clean" /\ pre' = 0 /\ reauth' = FALSE
    /\ preFiles' = remoteFiles
    /\ did' = {} /\ waits' = <<>> /\ unlinks' = <<>>
    /\ UNCHANGED <<env, invoices, idx, result, authed, contacted,
                   folderLookups, folderCreates, mainv>>
    /\ reconciled' = Append(reconciled, Len(delayed))
    /\ UNCHANGED dm

\* Lines 59-66: the item is counted; an exception out of upload_invoice_json
\* counts as failed.  The frame of the call is gone.
UpReturn ==
    /\ pc = "up_ret"
    /\ IF ReturnsTrue(retval)
       THEN /\ successful_uploads' = successful_uploads + 1
            /\ failed_uploads' = failed_uploads
       ELSE /\ successful_uploads' = successful_uploads
            /\ failed_uploads' = failed_uploads + 1
    /\ outcomes' = Append(outcomes, [res |-> ResultOf(retval), pre |-> pre, kind |-> kind,
                                     name |-> filename])
    /\ pc' = "loop"
    /\ filename' = NoName /\ folder_id' = 0 /\ temp_file' = 0 /\ attempt' = 0
    /\ retval' = "none"
    /\ faults' = {} /\ xfer' = <<>> /\ kind' = "clean" /\ pre' = 0 /\ reauth' = FALSE
    /\ preFiles' = remoteFiles
    /\ did' = {} /\ waits' = <<>> /\ unlinks' = <<>>
    /\ UNCHANGED <<env, invoices, idx, result, authed, contacted,
                   folderLookups, folderCreates, mainv>>
    /\ UNCHANGED <<dm, reconciled>>

\* Mutant: the registry is not rewritten after the pass.
Remaining_KeepsAll(paths, files, stuck) == paths

\* Line 68: cleanup_delayed_files() (lines 332-357).  files: the paths for
\* which os.path.exists holds; stuck: those whose os.unlink raises in this
\* pass; gone: registered paths someone else removed before the pass.
RECURSIVE Remaining(_, _, _)
Remaining(paths, files, stuck) ==
    IF paths = <<>> THEN <<>>
    ELSE LET p == Head(paths) IN
         (IF p \in files /\ p \in stuck THEN <<p>> ELSE <<>>) \o Remaining(Tail(paths), files, stuck)

LoadCleanup ==
    /\ pc = "cleanup"
    /\ \E gone \in SUBSET (Range(delayed) \cap disk) :
         \E stuck \in SUBSET ((Range(delayed) \cap disk) \ gone) :
            /\ delayed' = Remaining(delayed, disk \ gone, stuck)
            /\ disk' = disk \ (Range(delayed) \ stuck)
    /\ reconciled' = Append(reconciled, Len(delayed))
    /\ pc' = "report"
    /\ UNCHANGED <<token, remoteFolders, remoteFiles, nextTmp, loadv, service, folderCache,
                   frame, ghost, calllog, mainv>>

\* Mutant: only a batch without any failure is reported successful.
BatchResult_AllOrNothing(succ, total) ==
    IF succ = total THEN "True" ELSE "False"

\* Lines 71-85: the final policy.
BatchResult(succ, total) ==
    IF succ = total THEN "True" ELSE IF succ > 0 THEN "True" ELSE "False"

LoadReport ==
    /\ pc = "report"
    /\ result' = BatchResult(successful_uploads, Len(invoices))
    /\ pc' = "done"
    /\ UNCHANGED <<env, invoices, idx, successful_uploads, failed_uploads, dm, frame, ghost>>
    /\ UNCHANGED <<calllog, reconciled, mainv>>

Next ==
    \/ LoadStart \/ LoadAuthenticate \/ LoadTestConnection \/ LoopNext
    \/ UpValidate \/ UpReauthenticate \/ UpFolder \/ UpExists \/ UpStage
    \/ UpTransfer \/ UpFinally \/ UpUnlink \/ UpReturn
    \/ LoadCleanup \/ LoadReport

Spec == Init /\ [][Next]_vars

\* ------------------------------------------------------------------ main.py
\* The job run from the command line: main() inside the __main__ block.
\* invoices is what transform_to_invoices makes of the extracted rows.
MainInit == InitCommon /\ pc = "main"

MainUnchanged ==
    UNCHANGED <<env, loadv, dm, frame, ghost, calllog, reconciled, exits>>

\* Lines 15-18, before the try block: an exception raised here leaves main().
MainEscape ==
    /\ pc = "main"
    /\ main_ret' = "exception" /\ pc' = "main_exit" /\ stages' = stages
    /\ MainUnchanged

\* Lines 21-25: extract.test_connection() (it catches every exception).
MainTestDb ==
    /\ pc = "main"
    /\ \E ok \in BOOLEAN :
         IF ok THEN /\ pc' = "main_extract" /\ main_ret' = main_ret
                    /\ stages' = stages \cup {"db"}
               ELSE /\ pc' = "main_exit" /\ main_ret' = "False" /\ stages' = stages
    /\ MainUnchanged

\* Lines 27-33: extract_invoice_data() returns rows, no rows, or None.
MainExtract ==
    /\ pc = "main_extract"
    /\ \E df \in {"rows", "empty", "none"} :
         IF df = "rows" THEN /\ pc' = "main_transform" /\ main_ret' = main_ret
                             /\ stages' = stages \cup {"extract"}
                        ELSE /\ pc' = "main_exit" /\ main_ret' = "False" /\ stages' = stages
    /\ MainUnchanged

\* Lines 37-43 and 49: transform_to_invoices(df) returns the invoices or,
\* on an exception, None; a falsy value aborts, otherwise the load starts.
MainTransform ==
    /\ pc = "main_transform"
    /\ \E t \in {"list", "none"} :
         IF t = "list" /\ invoices # <<>>
         THEN /\ pc' = "start" /\ main_ret' = main_ret
              /\ stages' = stages \cup {"transform"}
         ELSE /\ pc' = "main_exit" /\ main_ret' = "False" /\ stages' = stages
    /\ MainUnchanged

\* Mutant: the value of load_invoices_to_drive is not looked at.
MainAfterLoad_IgnoresLoad ==
    /\ pc = "done"
    /\ main_ret' = "True"
    /\ stages' = stages \cup (IF result = "True" THEN {"load"} ELSE {})
    /\ pc' = "main_exit"
    /\ MainUnchanged

\* Lines 49-67: main() returns what load_invoices_to_drive returned.
MainAfterLoad ==
    /\ pc = "done"
    /\ main_ret' = (IF result = "True" THEN "True" ELSE "False")
    /\ stages' = stages \cup (IF result = "True" THEN {"load"} ELSE {})
    /\ pc' = "main_exit"
    /\ MainUnchanged

\* KeyboardInterrupt, at any point before exit(): no except clause of the
\* program catches it before line 83.  On its way out the finally clause of
\* upload_invoice_json may still remove the staging file; the process'
\* objects and the frame of the call in progress are gone.
Interrupt ==
    /\ pc # "exited"
    /\ main_ret' = "interrupt" /\ pc' = "main_exit"
    /\ \E removed \in BOOLEAN :
         disk' = IF removed /\ pc \in {"up_stage", "up_transfer", "up_finally", "up_unlink"}
                 THEN disk \ {temp_file} ELSE disk
    /\ service' = FALSE /\ folderCache' = NoCache /\ delayed' = <<>>
    /\ filename' = NoName /\ folder_id' = 0 /\ temp_file' = 0 /\ attempt' = 0
    /\ retval' = "none"
    /\ faults' = {} /\ xfer' = <<>> /\ kind' = "clean" /\ pre' = 0 /\ reauth' = FALSE
    /\ preFiles' = remoteFiles
    /\ did' = {} /\ waits' = <<>> /\ unlinks' = <<>>
    /\ UNCHANGED <<token, remoteFolders, remoteFiles, nextTmp, loadv, outcomes,
                   authed, contacted, folderLookups, folderCreates, reconciled,
                   exits, stages>>

\* Lines 80-88: exit_code = 0 if success else 1; 130 on KeyboardInterrupt;
\* 1 on any other exception.
ExitCode(o) ==
    IF o = "interrupt" THEN 130 ELSE IF o = "True" THEN 0 ELSE 1

MainExit ==
    /\ pc = "main_exit"
    /\ exits' = Append(exits, ExitCode(main_ret))
    /\ pc' = "exited"
    /\ UNCHANGED <<env, loadv, dm, frame, ghost, calllog, reconciled, main_ret, stages>>

MainNext ==
    \/ Next
    \/ MainEscape \/ MainTestDb \/ MainExtract \/ MainTransform
    \/ MainAfterLoad \/ Interrupt \/ MainExit

SpecMain == MainInit /\ [][MainNext]_vars

\* ================================================================ claims
NameOf(i) == generate_reference(invoices[i])
CleanUpTo(i) == \A j \in 1..i : outcomes[j].kind = "clean"

\* C1: two consecutive uploads of the same document name into the folder,
\* in a run without any failure so far and with no object of that name in
\* the store before the first, return Uploaded and then
\* SkippedAlreadyExists, and after the second (until the next item is
\* taken up) the store holds exactly one object of that name.
C1_Idempotence ==
    \A i \in 1..(Len(outcomes) - 1) :
        ( /\ NameOf(i) = NameOf(i + 1) /\ NameOf(i) # NoName
          /\ outcomes[i].pre = 0
          /\ CleanUpTo(i + 1) )
        => /\ outcomes[i].res = "Uploaded"
           /\ outcomes[i + 1].res = "Skipped"
           /\ (idx = i + 1 => CountName(NameOf(i)) = 1)

C1_Witness ==
    /\ Len(outcomes) = 2 /\ NameOf(1) = NameOf(2) /\ NameOf(1) # NoName
    /\ outcomes[1].pre = 0 /\ CleanUpTo(2)
    /\ outcomes[1].res = "Uploaded" /\ outcomes[2].res = "Skipped"
    /\ CountName(NameOf(1)) = 1

\* C2: the remote folder never holds more than one object per document
\* name, whatever the answers to the existence check.
C2_NoDuplicates ==
    \A k \in DOMAIN remoteFiles : remoteFiles[k] <= 1

Succeeded(i) == outcomes[i].res \in {"Uploaded", "Skipped"}
LoopDone == pc = "done" /\ invoices # <<>> /\ Len(outcomes) = Len(invoices)

\* C3: when the remote store answers 403 to item k alone, so that item k
\* fails, and every other item meets no failure, the batch ends with
\* succeeded = N-1 and failed = 1, every other item succeeded and its
\* document is in the store.
C3_PartialFailureIsolation ==
    LoopDone =>
      \A k \in 1..Len(outcomes) :
        ( /\ outcomes[k].kind = "auth" /\ outcomes[k].res = "Failed"
          /\ \A j \in 1..Len(outcomes) \ {k} : outcomes[j].kind = "clean" )
        => /\ successful_uploads = Len(invoices) - 1
           /\ failed_uploads = 1
           /\ \A j \in 1..Len(outcomes) \ {k} :
                 Succeeded(j) /\ CountName(NameOf(j)) >= 1

AuthFaultInTry ==
    \/ \E site \in {"folder_list", "folder_create", "exists"} : <<site, "auth">> \in faults
    \/ "auth" \in Range(xfer)

\* C4: a 401/403 answer to the folder resolution, the existence check or
\* the transfer makes upload_invoice_json invalidate the session and
\* re-authenticate (and then retry the upload once).
C4_ReauthOnAuthFailure ==
    (pc = "up_finally" /\ AuthFaultInTry) => reauth

\* C5: a 401 answer to the existence check, with no other failure in the
\* call, triggers the invalidate + re-authenticate + retry path and the
\* call returns Uploaded.
C5_ReauthAfter401OnExistenceCheck ==
    (pc = "up_finally" /\ faults = {<<"exists", "auth">>} /\ Range(xfer) \subseteq {"ok"})
    => (reauth /\ retval = "uploaded")

\* C6: the transfer is attempted at most UploadMaxRetries (3) times; 429
\* (or 5xx) on the first two attempts and success on the third is Uploaded
\* after exactly 3 attempts; 429 (or 5xx) on every attempt is Failed after
\* exactly 3 attempts.
C6_BoundedTransferRetry ==
    /\ Len(xfer) <= UploadMaxRetries
    /\ pc = "up_finally" =>
         /\ xfer = <<"transient", "transient", "ok">> => retval = "uploaded"
         /\ (xfer # <<>> /\ Range(xfer) = {"transient"})
              => (Len(xfer) = UploadMaxRetries /\ retval = "failed")

C6_Witness ==
    /\ pc = "up_finally" /\ xfer = <<"transient", "transient", "ok">>
    /\ retval = "uploaded" /\ remoteFiles[<<folder_id, filename>>] >= 1

\* C7: when upload_invoice_json returns, the staging file it created is
\* gone from the disk or is in the deferred-cleanup registry.
C7_StagingFileReleased ==
    (pc = "up_ret" /\ temp_file # 0)
    => (temp_file \notin disk \/ temp_file \in Range(delayed))

\* C8 (as stated): resolving the folder path twice within one run issues at
\* most one folder lookup to the remote store.
C8_AtMostOneLookup == folderLookups <= 1

\* C8 (amended): once the folder path is in _folder_cache, no later
\* resolution in the run issues a folder lookup or create request.
CachedPathStep ==
    (DRIVE_FOLDER \in DOMAIN folderCache)
        => (folderLookups' = folderLookups /\ folderCreates' = folderCreates)

C8_CachedPathNotLookedUp == [][CachedPathStep]_vars

C8_Witness ==
    /\ pc = "up_exists" /\ idx = 2
    /\ outcomes[1].res = "Uploaded"
    /\ DRIVE_FOLDER \in DOMAIN folderCache /\ folderLookups = 1

C10_EmptyBatch ==
    (pc = "done" /\ invoices = <<>>) =>
      /\ result = "True"
      /\ successful_uploads = 0 /\ failed_uploads = 0 /\ Len(invoices) = 0
      /\ outcomes = <<>>
      /\ ~authed /\ ~contacted
      /\ nextTmp = 0 /\ disk = {}

C10_Witness == pc = "done" /\ invoices = <<>> /\ result = "True"

\* C11: once the item loop runs, every invoice is processed exactly once and
\* in input order (the i-th outcome is that of the i-th invoice), an invoice
\* whose processing raises is counted Failed and the loop goes on, at every
\* point succeeded + failed is the number of items processed so far, and
\* after the loop succeeded + failed = N.
ItemPcs == {"up_validate", "up_reauth", "up_folder", "up_exists", "up_stage",
            "up_transfer", "up_finally", "up_unlink", "up_ret"}

C11_EveryItemOnceInOrder ==
    /\ successful_uploads + failed_uploads = Len(outcomes)
    /\ \A i \in 1..Len(outcomes) :
          /\ i <= Len(invoices) /\ outcomes[i].name = NameOf(i)
          /\ NameOf(i) = NoName => outcomes[i].res = "Failed"
    /\ pc = "loop" => Len(outcomes) = idx
    /\ pc \in ItemPcs => (Len(outcomes) = idx - 1 /\ filename = NameOf(idx))
    /\ (pc \in {"cleanup", "report"} \/ (pc = "done" /\ idx > 0))
         => (idx = Len(invoices) /\ successful_uploads + failed_uploads = Len(invoices))

C11_Witness ==
    /\ pc = "done" /\ Len(invoices) = 2 /\ Len(outcomes) = 2
    /\ NameOf(1) = NoName /\ outcomes[1].res = "Failed"
    /\ outcomes[2].res = "Uploaded"
    /\ successful_uploads = 1 /\ failed_uploads = 1

FolderFault ==
    \E site \in {"folder_list", "folder_create"}, c \in {"auth", "error"} :
        <<site, c>> \in faults

\* C12: when the folder lookup or the folder creation fails, the call ends
\* Failed with nothing cached for the path, having run no existence check,
\* staged no file, made no transfer attempt and created no remote object.
C12_FolderFailureLeavesNoTrace ==
    FolderFault =>
      /\ pc = "up_finally" /\ retval = "failed"
      /\ DRIVE_FOLDER \notin DOMAIN folderCache
      /\ did = {"folder"}
      /\ temp_file = 0 /\ xfer = <<>>
      /\ CountName(filename) = pre

C12_Witness ==
    /\ pc = "up_finally" /\ <<"folder_create", "error">> \in faults
    /\ retval = "failed" /\ did = {"folder"} /\ idx = 2
    /\ DRIVE_FOLDER \notin DOMAIN folderCache

\* C13: a transfer that succeeded makes the call return Uploaded and the
\* item count as succeeded, whatever the deletion of the staging file does:
\* the finally clause and _cleanup_temp_file leave the return value alone,
\* and _cleanup_temp_file ends by returning to its caller, never by raising.
CleanupKeepsResultStep ==
    /\ (pc = "up_finally" /\ xfer # <<>> /\ xfer[Len(xfer)] = "ok") => retval = "uploaded"
    /\ pc = "up_finally" => (retval' = retval /\ pc' \in {"up_finally", "up_unlink", "up_ret"})
    /\ pc = "up_unlink" => (retval' = retval /\ pc' \in {"up_unlink", "up_ret"})
    /\ (pc = "up_ret" /\ retval = "uploaded" /\ pc' # pc)
         => /\ successful_uploads' = successful_uploads + 1
            /\ failed_uploads' = failed_uploads
            /\ outcomes'[Len(outcomes')].res = "Uploaded"

C13_CleanupFailureNotEscalated == [][CleanupKeepsResultStep]_vars

C13_Witness ==
    /\ pc = "loop" /\ Len(outcomes) = 1 /\ outcomes[1].res = "Uploaded"
    /\ successful_uploads = 1 /\ disk = {1} /\ delayed = <<>>

SetupPcs == {"start", "load_auth", "load_test"}

\* C14: during setup nothing is attempted or created; a run of a non-empty
\* batch that ends there is reported failed with no item processed; without
\* a usable token file authenticate() fails and ends the run, and so does a
\* connection test that loses the session; once the item loop has started,
\* nothing ends the run before every item is processed and reported.
SetupAbortStep ==
    /\ pc \in SetupPcs =>
          /\ UNCHANGED <<remoteFolders, remoteFiles, disk, nextTmp, idx, outcomes, reconciled>>
          /\ (pc' = "done" /\ invoices # <<>>) =>
                (result' = "False" /\ idx = 0 /\ outcomes = <<>> /\ nextTmp = 0)
    /\ (pc = "load_auth" /\ token \in {"absent", "invalid"}) => pc' = "done"
    /\ (pc = "load_test" /\ ~service') => pc' = "done"
    /\ pc \in ({"loop", "cleanup"} \cup ItemPcs) => (pc' # "done" /\ result' = "none")
    /\ pc = "report" => (idx = Len(invoices) /\ Len(outcomes) = Len(invoices))

C14_OnlySetupErrorsAbort == [][SetupAbortStep]_vars

C14_Witness ==
    /\ pc = "done" /\ invoices # <<>> /\ result = "False"
    /\ authed /\ contacted /\ service
    /\ idx = 0 /\ outcomes = <<>> /\ nextTmp = 0 /\ disk = {}

\* C15 (as stated): every non-empty batch has had exactly one
\* reconciliation pass when the run ends.
C15_OncePerNonEmptyBatch ==
    (pc = "done" /\ invoices # <<>>) => Len(reconciled) = 1

\* C15 (amended): cleanup_delayed_files() is invoked exactly once in every
\* run that enters the item loop, after the last item has been processed
\* and whatever the number of failed items, and never before or between
\* items; a run that ends during setup, or on the empty batch, never
\* invokes it.
C15_ReconcileOnceAfterLoop ==
    /\ Len(reconciled) <= 1
    /\ Len(reconciled) = 1 <=> (pc = "report" \/ (pc = "done" /\ idx > 0))
    /\ Len(reconciled) = 1 =>
          (idx = Len(invoices) /\ Len(outcomes) = Len(invoices))
    /\ (pc = "done" /\ idx = 0) => reconciled = <<>>

C15_Witness ==
    /\ pc = "done" /\ Len(invoices) = 2 /\ failed_uploads = 2
    /\ Len(reconciled) = 1

AllPermissionErrors == [i \in 1..CleanupMaxRetries |-> "perm"]
TimesRegistered(p) == Cardinality({ i \in 1..Len(delayed) : delayed[i] = p })

\* C16: _cleanup_temp_file calls os.unlink at most CleanupMaxRetries (5)
\* times; every attempt but the last met PermissionError, so that it stops
\* at the first success; after a success the file is gone and unregistered;
\* after 5 PermissionErrors the path is in the registry exactly once and
\* the call has returned; otherwise the path is not registered.
C16_BoundedCleanupAttempts ==
    /\ Len(unlinks) <= CleanupMaxRetries
    /\ \A i \in 1..(Len(unlinks) - 1) : unlinks[i] = "perm"
    /\ pc = "up_unlink" =>
          /\ Len(unlinks) < CleanupMaxRetries
          /\ TimesRegistered(temp_file) = 0
    /\ pc = "up_ret" =>
          /\ (unlinks # <<>> /\ unlinks[Len(unlinks)] = "ok")
                => (temp_file \notin disk /\ TimesRegistered(temp_file) = 0)
          /\ unlinks = AllPermissionErrors
                => (TimesRegistered(temp_file) = 1 /\ retval \in {"uploaded", "failed"})
          /\ unlinks # AllPermissionErrors => TimesRegistered(temp_file) = 0

C16_Witness ==
    /\ pc = "up_ret" /\ unlinks = AllPermissionErrors
    /\ delayed = <<temp_file>> /\ temp_file \in disk /\ retval = "uploaded"

IsInjective(q) == \A i, j \in 1..Len(q) : q[i] = q[j] => i = j

\* C17: a reconciliation pass leaves in the registry exactly the registered
\* paths that are still on disk after it (their deletion failed), in their
\* original order; it removes no file that was not registered, adds no path
\* and registers none twice.
ReconcileStep ==
    (pc = "cleanup" /\ pc' = "report") =>
      /\ delayed' = SelectSeq(delayed, LAMBDA p : p \in disk')
      /\ Range(delayed') \subseteq Range(delayed)
      /\ disk' \subseteq disk /\ (disk \ disk') \subseteq Range(delayed)
      /\ IsInjective(delayed')
      /\ reconciled' = Append(reconciled, Len(delayed))

C17_ReconcileKeepsOnlyFailures == [][ReconcileStep]_vars

C17_Witness ==
    /\ pc = "report" /\ reconciled = <<2>>
    /\ delayed = <<2>> /\ disk = {2} /\ nextTmp = 2

\* C18: at line 148 the session was found invalid.  The call goes on to
\* the folder resolution only with the session authenticate() has set up;
\* without a usable token file, or when the request of authenticate()
\* fails, it returns Failed at once: no folder resolution, no existence
\* check, no staging file, no transfer, nothing changed in the remote store.
ReauthFailed ==
    \/ token' \in {"absent", "invalid"}
    \/ \E c \in {"auth", "error"} : <<"about", c>> \in faults' \ faults
    \/ \E c \in {"auth", "error"} : <<"refresh", c>> \in faults' \ faults

SessionPreconditionStep ==
    pc = "up_reauth" =>
      /\ pc' = "up_folder" => (token' = "valid" /\ service')
      /\ ReauthFailed => pc' = "up_ret"
      /\ pc' = "up_ret" =>
            /\ retval' = "failed"
            /\ did' = {} /\ temp_file' = 0 /\ xfer' = <<>>
            /\ UNCHANGED <<remoteFolders, remoteFiles, disk, nextTmp, folderCache,
                           folderLookups, folderCreates>>

C18_SessionPrecondition == [][SessionPreconditionStep]_vars

C18_Witness ==
    /\ pc = "up_ret" /\ retval = "failed" /\ token = "absent"
    /\ did = {} /\ temp_file = 0 /\ idx = 2 /\ outcomes[1].res = "Uploaded"

NonRetryable == {"auth", "other"}

\* C19: an HTTP error other than 429 or 5xx ends the transfer at once: it
\* is the last attempt of the call, no wait follows it, and the call is on
\* its way out with Failed and no new remote object; when it answers the
\* first attempt, that attempt is the only one and the call never waited.
C19_NonRetryableAbortsTransfer ==
    /\ \A i \in 1..(Len(xfer) - 1) : xfer[i] \notin NonRetryable
    /\ (xfer # <<>> /\ xfer[Len(xfer)] \in NonRetryable) =>
          /\ pc = "up_finally" /\ retval = "failed"
          /\ Len(waits) = Len(xfer) - 1
          /\ CountName(filename) = pre
    /\ (xfer # <<>> /\ xfer[1] \in NonRetryable) => (Len(xfer) = 1 /\ waits = <<>>)

C19_Witness ==
    /\ pc = "up_finally" /\ xfer = <<"other">> /\ waits = <<>>
    /\ retval = "failed" /\ temp_file \in disk

\* C20: the process exits once, with 0 exactly when main() returned True,
\* with 1 when main() returned False or an exception left it, with 130
\* when the user interrupted it; and main() returns True only after the
\* database test, the extraction, a transformation to a non-empty batch
\* and the load have all succeeded.
C20_ExitContract ==
    /\ Len(exits) <= 1
    /\ pc = "exited" <=> Len(exits) = 1
    /\ pc = "exited" =>
          /\ main_ret # "none"
          /\ exits[1] = 0 <=> main_ret = "True"
          /\ main_ret \in {"False", "exception"} => exits[1] = 1
          /\ main_ret = "interrupt" => exits[1] = 130
    /\ main_ret = "True" =>
          /\ stages = {"db", "extract", "transform", "load"}
          /\ invoices # <<>> /\ result = "True"
          /\ \E i \in 1..Len(outcomes) : Succeeded(i)

C20_Witness ==
    /\ pc = "exited" /\ exits = <<0>> /\ main_ret = "True"
    /\ result = "True" /\ failed_uploads = 1 /\ successful_uploads = 1

\* C21: the attempt numbered a (0-based) that fails with 429 or 5xx is
\* followed by a wait of 2^a + 1 seconds, and the transfer loop waits only
\* between attempts: when it is over, it has waited fewer times than it
\* has made attempts.
C21_BackoffOnlyBetweenAttempts ==
    /\ \A i \in 1..Len(waits) :
          (i <= Len(xfer) /\ xfer[i] = "transient") => waits[i] = 2^(i - 1) + 1
    /\ \A i \in 1..(Len(waits) - 1) :
          (xfer[i] = "transient" /\ xfer[i + 1] = "transient") => waits[i] < waits[i + 1]
    /\ (pc = "up_finally" /\ xfer # <<>> /\ xfer[Len(xfer)] = "transient")
          => Len(waits) < Len(xfer)

\* C27: a transfer attempt that raises a non-HTTP exception is retried:
\* attempt a (0-based) that raised is followed by a wait of 2^a seconds
\* unless it was the last one allowed, and a transfer whose every attempt
\* raised ends after exactly UploadMaxRetries (3) attempts and two waits,
\* with Failed and no new remote object.
C27_ExceptionRetried ==
    /\ \A i \in 1..Len(xfer) :
          xfer[i] = "exc" =>
            IF i < UploadMaxRetries
            THEN Len(waits) >= i /\ waits[i] = 2^(i - 1)
            ELSE Len(waits) = UploadMaxRetries - 1
    /\ (pc = "up_finally" /\ xfer # <<>> /\ Range(xfer) = {"exc"}) =>
          /\ Len(xfer) = UploadMaxRetries
          /\ waits = <<1, 2>>
          /\ retval = "failed" /\ CountName(filename) = pre
    /\ (pc = "up_transfer" /\ xfer # <<>> /\ xfer[Len(xfer)] = "exc")
          => Len(xfer) < UploadMaxRetries

C27_Witness ==
    /\ pc = "up_finally" /\ xfer = <<"exc", "exc", "exc">>
    /\ waits = <<1, 2>> /\ retval = "failed"

\* C22: a call that returns at line 166 because the existence check found
\* an object of the target name has staged no file, made no transfer
\* attempt and no deletion attempt, and the remote objects are those the
\* store held when the call began, the found object among them.  (No
\* request of the program rewrites or deletes a remote object, so the object
\* kept is the old one whatever the new document holds.)
C22_SkipLeavesAllUnchanged ==
    retval = "skip" =>
      /\ pc \in {"up_finally", "up_ret"}
      /\ remoteFiles = preFiles
      /\ remoteFiles[<<folder_id, filename>>] >= 1
      /\ CountName(filename) = pre
      /\ temp_file = 0 /\ xfer = <<>> /\ waits = <<>> /\ unlinks = <<>>
      /\ pc = "up_finally" => did = {"folder", "exists"}

C22_Witness ==
    /\ pc = "up_ret" /\ retval = "skip" /\ idx = 1
    /\ remoteFiles[<<folder_id, filename>>] = 1 /\ nextTmp = 0

\* C23: an entry of _folder_cache is never changed or removed by any step
\* of the run, and an entry is added only by a folder resolution whose
\* lookup (and create, if any) succeeded, with the id of a folder the store
\* holds.
CacheWriteOnceStep ==
    /\ \A p \in DOMAIN folderCache :
          p \in DOMAIN folderCache' /\ folderCache'[p] = folderCache[p]
    /\ folderCache' # folderCache =>
          /\ pc = "up_folder" /\ pc' = "up_exists"
          /\ folderLookups' = folderLookups + 1
          /\ faults' = faults
          /\ folderCache'[DRIVE_FOLDER] \in remoteFolders'
          /\ folder_id' = folderCache'[DRIVE_FOLDER]

C23_FolderCacheWriteOnce == [][CacheWriteOnceStep]_vars

C23_Witness ==
    /\ pc = "done" /\ Len(outcomes) = 2
    /\ outcomes[1].res = "Uploaded" /\ outcomes[2].res = "Failed"
    /\ token = "absent" /\ ~service
    /\ DRIVE_FOLDER \in DOMAIN folderCache /\ folderCache[DRIVE_FOLDER] \in remoteFolders

\* C24: a folder create request is issued only by a resolution whose
\* lookup succeeded and listed no folder of that name, with the path not
\* yet cached; a folder appears in the store only through such a request,
\* one at a time; and the store, which held at most one folder of the name
\* when the run began, never holds two.
FolderCreateStep ==
    /\ folderCreates' # folderCreates =>
          /\ pc = "up_folder" /\ remoteFolders = {}
          /\ DRIVE_FOLDER \notin DOMAIN folderCache
          /\ folderCreates' = folderCreates + 1
          /\ folderLookups' = folderLookups + 1
          /\ \A c \in {"auth", "error"} : <<"folder_list", c>> \notin faults'
    /\ remoteFolders' # remoteFolders =>
          /\ folderCreates' = folderCreates + 1
          /\ remoteFolders \subseteq remoteFolders'
          /\ Cardinality(remoteFolders') = Cardinality(remoteFolders) + 1
          /\ folderCache'[DRIVE_FOLDER] \in remoteFolders' \ remoteFolders
    /\ Cardinality(remoteFolders) <= 1

C24_FolderCreatedOnlyWhenAbsent == [][FolderCreateStep]_vars

C24_Witness ==
    /\ pc = "up_exists" /\ idx = 2
    /\ folderCreates = 1 /\ folderLookups = 1 /\ remoteFolders = {1}
    /\ folderCache[DRIVE_FOLDER] = 1

\* Steps a call of upload_invoice_json can still take from its position.
CallRank ==
    CASE pc = "up_ret"      -> 1
      [] pc = "up_unlink"   -> 1 + (CleanupMaxRetries - attempt)
      [] pc = "up_finally"  -> CleanupMaxRetries + 2
      [] pc = "up_transfer" -> CleanupMaxRetries + 2 + (UploadMaxRetries - attempt)
      [] pc = "up_stage"    -> CleanupMaxRetries + UploadMaxRetries + 3
      [] pc = "up_exists"   -> CleanupMaxRetries + UploadMaxRetries + 4
      [] pc = "up_folder"   -> CleanupMaxRetries + UploadMaxRetries + 5
      [] pc = "up_reauth"   -> CleanupMaxRetries + UploadMaxRetries + 6
      [] pc = "up_validate" -> CleanupMaxRetries + UploadMaxRetries + 7
      [] OTHER              -> 0

\* Steps load_invoices_to_drive can still take: those of the items not yet
\* taken up, those of the call in progress, and the epilogue.
Rank ==
    LET perItem == CleanupMaxRetries + UploadMaxRetries + 8
        ahead == (Len(invoices) - idx) * perItem
    IN  CASE pc = "start"     -> ahead + 6
          [] pc = "load_auth" -> ahead + 5
          [] pc = "load_test" -> ahead + 4
          [] pc = "cleanup"   -> 2
          [] pc = "report"    -> 1
          [] pc = "done"      -> 0
          [] OTHER            -> ahead + 3 + CallRank

\* C25: load_invoices_to_drive returns for every batch and every pattern
\* of remote answers and deletion failures: each step of the run lowers a
\* natural-number measure, the transfer loop and the cleanup loop stay
\* below their ceilings, and only the state in which the result has been
\* returned has no next step.
TerminationStep ==
    /\ Rank \in Nat /\ Rank' \in Nat /\ Rank' < Rank
    /\ pc = "up_transfer" => attempt < UploadMaxRetries
    /\ pc = "up_unlink" => attempt < CleanupMaxRetries
    /\ idx <= Len(invoices)
    /\ pc' # "done" => (ENABLED Next)'

C25_Terminates == [][TerminationStep]_vars

C25_Witness ==
    /\ pc = "done" /\ result = "False" /\ Len(outcomes) = 2
    /\ failed_uploads = 2 /\ disk = {1, 2} /\ reconciled = <<2>> /\ delayed = <<1, 2>>

LoopPcs == {"loop", "cleanup", "report"} \cup ItemPcs

\* C26: once the token file has been deleted during the item loop, it
\* stays deleted and the service handle stays unset for the rest of the
\* run; no call gets past its session check, so no folder, existence-check
\* or transfer request is issued, nothing is staged, the store is left as
\* it is and no further item is counted as succeeded.
TokenLostStep ==
    (token = "absent" /\ pc \in LoopPcs) =>
      /\ ~service /\ token' = "absent" /\ ~service'
      /\ pc \in {"loop", "up_validate", "up_reauth", "up_ret", "cleanup", "report"}
      /\ pc' \in {"loop", "up_validate", "up_reauth", "up_ret", "cleanup", "report", "done"}
      /\ pc = "up_ret" => retval = "failed"
      /\ did' = {} /\ xfer' = <<>>
      /\ UNCHANGED <<remoteFiles, remoteFolders, folderLookups, folderCreates, nextTmp,
                     successful_uploads>>

C26_TokenDeletionSticky == [][TokenLostStep]_vars

C26_Witness ==
    /\ pc = "done" /\ token = "absent" /\ ~service /\ Len(outcomes) = 2
    /\ outcomes[1].res = "Failed" /\ outcomes[1].kind = "auth"
    /\ outcomes[2].res = "Failed" /\ outcomes[2].kind = "clean"
    /\ folderLookups = 0 /\ nextTmp = 0

====
